---- MODULE Spec2Model ----
(***************************************************************************)
(* Hardware-intrinsic descriptor table of the xarch JIT                     *)
(* (src/jit/hwintrinsicxarch.h): the HWIntrinsicFlag bit set, the           *)
(* HWIntrinsicInfo row, the member lookups and the 21 flag predicates.      *)
(* The out-of-line functions the header only declares (lookup, the name     *)
(* resolver, the immediate evaluator, signature-aware sizing) and the       *)
(* table's rows follow the design document.                                 *)
(***************************************************************************)
EXTENDS Integers, Sequences, FiniteSets, TLC

VARIABLES
    authored,   \* per intrinsic id: the flag names OR-ed together in its table row
    table,      \* the registry: the array of HWIntrinsicInfo rows
    last,       \* the call in progress on the single-threaded path: <<kind, args, result>>
    pc,         \* per worker: index of the next query of the workload
    inflight,   \* per worker: TRUE between fetching the row and reading the field
    results,    \* per worker: the results returned so far
    expected    \* per query of the workload: the results a sequential run can give

vars == <<authored, table, last, pc, inflight, results, expected>>

-----------------------------------------------------------------------------
(* Bounds of the model *)

\* Flags set on the synthetic descriptor besides the one flag under test.
MaxOtherFlags == 1
\* Immediate candidates range over -ImmSlack .. 255 + ImmSlack.
ImmSlack == 2
\* var_types ordinals range over 0 .. TYP_DOUBLE + TypSlack.
TypSlack == 2
\* Concurrent compilation workers.
NumWorkers == 2

-----------------------------------------------------------------------------
(* enum HWIntrinsicFlag : unsigned int *)

HW_Flag_NoFlag == 0
HW_Flag_Commutative == 1                \* 0x1
HW_Flag_FullRangeIMM == 2               \* 0x2
HW_Flag_OneTypeGeneric == 4             \* 0x4
HW_Flag_TwoTypeGeneric == 8             \* 0x8
HW_Flag_NoCodeGen == 16                 \* 0x10
HW_Flag_UnfixedSIMDSize == 32           \* 0x20
HW_Flag_MultiIns == 128                 \* 0x80
HW_Flag_NoContainment == 256            \* 0x100
HW_Flag_CopyUpperBits == 512            \* 0x200
HW_Flag_BaseTypeFromFirstArg == 1024    \* 0x400
HW_Flag_NoFloatingPointUsed == 2048     \* 0x800
HW_Flag_MaybeIMM == 4096                \* 0x1000
HW_Flag_NoJmpTableIMM == 8192           \* 0x2000
HW_Flag_64BitOnly == 16384              \* 0x4000
HW_Flag_SecondArgMaybe64Bit == 32768    \* 0x8000
HW_Flag_BaseTypeFromSecondArg == 65536  \* 0x10000
HW_Flag_SpecialCodeGen == 131072        \* 0x20000
HW_Flag_NoRMWSemantics == 262144        \* 0x40000
HW_Flag_SpecialImport == 524288         \* 0x80000
HW_Flag_MaybeMemoryLoad == 1048576      \* 0x100000
HW_Flag_MaybeMemoryStore == 2097152     \* 0x200000

FlagNames ==
    { "Commutative", "FullRangeIMM", "OneTypeGeneric", "TwoTypeGeneric",
      "NoCodeGen", "UnfixedSIMDSize", "MultiIns", "NoContainment",
      "CopyUpperBits", "BaseTypeFromFirstArg", "NoFloatingPointUsed",
      "MaybeIMM", "NoJmpTableIMM", "64BitOnly", "SecondArgMaybe64Bit",
      "BaseTypeFromSecondArg", "SpecialCodeGen", "NoRMWSemantics",
      "SpecialImport", "MaybeMemoryLoad", "MaybeMemoryStore" }

\* The enumerator a flag name stands for.
FlagValue(f) ==
    CASE f = "Commutative" -> HW_Flag_Commutative
      [] f = "FullRangeIMM" -> HW_Flag_FullRangeIMM
      [] f = "OneTypeGeneric" -> HW_Flag_OneTypeGeneric
      [] f = "TwoTypeGeneric" -> HW_Flag_TwoTypeGeneric
      [] f = "NoCodeGen" -> HW_Flag_NoCodeGen
      [] f = "UnfixedSIMDSize" -> HW_Flag_UnfixedSIMDSize
      [] f = "MultiIns" -> HW_Flag_MultiIns
      [] f = "NoContainment" -> HW_Flag_NoContainment
      [] f = "CopyUpperBits" -> HW_Flag_CopyUpperBits
      [] f = "BaseTypeFromFirstArg" -> HW_Flag_BaseTypeFromFirstArg
      [] f = "NoFloatingPointUsed" -> HW_Flag_NoFloatingPointUsed
      [] f = "MaybeIMM" -> HW_Flag_MaybeIMM
      [] f = "NoJmpTableIMM" -> HW_Flag_NoJmpTableIMM
      [] f = "64BitOnly" -> HW_Flag_64BitOnly
      [] f = "SecondArgMaybe64Bit" -> HW_Flag_SecondArgMaybe64Bit
      [] f = "BaseTypeFromSecondArg" -> HW_Flag_BaseTypeFromSecondArg
      [] f = "SpecialCodeGen" -> HW_Flag_SpecialCodeGen
      [] f = "NoRMWSemantics" -> HW_Flag_NoRMWSemantics
      [] f = "SpecialImport" -> HW_Flag_SpecialImport
      [] f = "MaybeMemoryLoad" -> HW_Flag_MaybeMemoryLoad
      [] f = "MaybeMemoryStore" -> HW_Flag_MaybeMemoryStore

\* a & b on unsigned int.
RECURSIVE BitAnd(_, _)
BitAnd(a, b) ==
    IF a = 0 \/ b = 0
    THEN 0
    ELSE (a % 2) * (b % 2) + 2 * BitAnd(a \div 2, b \div 2)

\* a | b on unsigned int.
RECURSIVE BitOr(_, _)
BitOr(a, b) ==
    IF a = 0 THEN b
    ELSE IF b = 0 THEN a
    ELSE (IF a % 2 = 1 \/ b % 2 = 1 THEN 1 ELSE 0) + 2 * BitOr(a \div 2, b \div 2)

\* The flags word of a row written HW_Flag_A|HW_Flag_B|... (HW_Flag_NoFlag for none).
RECURSIVE FlagWord(_)
FlagWord(S) ==
    IF S = {}
    THEN HW_Flag_NoFlag
    ELSE LET f == CHOOSE x \in S : TRUE
         IN  BitOr(FlagValue(f), FlagWord(S \ {f}))

-----------------------------------------------------------------------------
(* enum HWIntrinsicCategory *)

Categories ==
    { "HW_Category_SimpleSIMD", "HW_Category_IsSupportedProperty",
      "HW_Category_IMM", "HW_Category_Scalar", "HW_Category_SIMDScalar",
      "HW_Category_MemoryLoad", "HW_Category_MemoryStore",
      "HW_Category_Helper", "HW_Category_Special" }

-----------------------------------------------------------------------------
(* Element types (var_types) and the opcode row *)

TYP_BYTE == 3
TYP_FLOAT == 11
TYP_DOUBLE == 12
VarTypes == 0 .. (TYP_DOUBLE + TypSlack)

\* instruction ins[10]
InsSlots == 10

INS_invalid == "INS_invalid"
Instructions ==
    { INS_invalid, "INS_addps", "INS_addpd", "INS_paddb", "INS_paddw",
      "INS_paddd", "INS_paddq", "INS_shufps", "INS_pslld", "INS_vtest" }

\* A word that is no opcode of the row.
OutOfBounds == "OutOfBounds"

\* What a read outside a C array can yield (undefined behaviour): whatever
\* lies there, be it the bit pattern of some opcode or not.
UBValues == Instructions \cup { OutOfBounds }

\* The values arr[i] can yield for a C array held as a sequence (slot 0
\* first): the slot itself inside the array, anything outside it.
ArrayRead(arr, i) ==
    IF i \in 0 .. (Len(arr) - 1) THEN { arr[i + 1] } ELSE UBValues

\* An opcode row: the given opcode in the listed element types' slots.
InsRow(slots) ==
    [i \in 1 .. InsSlots |->
        IF (i - 1 + TYP_BYTE) \in DOMAIN slots
        THEN slots[i - 1 + TYP_BYTE]
        ELSE INS_invalid]

-----------------------------------------------------------------------------
(* Intrinsic identifiers and instruction-set extensions *)

NI_Illegal == 0
NI_HW_INTRINSIC_START == 1
NI_SSE_Add == NI_HW_INTRINSIC_START + 1
NI_SSE_Shuffle4 == NI_HW_INTRINSIC_START + 2
NI_SSE2_Add == NI_HW_INTRINSIC_START + 3
NI_SSE2_ShiftLeftLogical == NI_HW_INTRINSIC_START + 4
NI_AVX_TestA == NI_HW_INTRINSIC_START + 5
NI_AVX_TestB == NI_HW_INTRINSIC_START + 6
NI_HW_INTRINSIC_END == NI_HW_INTRINSIC_START + 7

HWIds == (NI_HW_INTRINSIC_START + 1) .. (NI_HW_INTRINSIC_END - 1)

InstructionSet_ILLEGAL == "InstructionSet_ILLEGAL"
InstructionSets ==
    { "InstructionSet_SSE", "InstructionSet_SSE2", "InstructionSet_AVX" }

\* The flag names of the fixed rows; the two synthetic rows are set by Init.
BaseFlags ==
    [id \in HWIds |->
        CASE id = NI_SSE_Add -> {"Commutative"}
          [] id = NI_SSE_Shuffle4 -> {}
          [] id = NI_SSE2_Add -> {"Commutative"}
          [] id = NI_SSE2_ShiftLeftLogical ->
                {"MaybeIMM", "NoJmpTableIMM", "FullRangeIMM"}
          [] OTHER -> {}]

\* One row of the table.
Row(id, name, isa, ival, simdSize, numArgs, ins, category, flags) ==
    [id |-> id, name |-> name, isa |-> isa, ival |-> ival,
     simdSize |-> simdSize, numArgs |-> numArgs, ins |-> ins,
     category |-> category, flags |-> flags]

\* The static table, rows in identifier order.
hwIntrinsicInfoArray(auth) ==
    << Row(NI_SSE_Add, "Add", "InstructionSet_SSE", -1, 16, 2,
           InsRow((TYP_FLOAT :> "INS_addps")),
           "HW_Category_SimpleSIMD", FlagWord(auth[NI_SSE_Add])),
       Row(NI_SSE_Shuffle4, "Shuffle", "InstructionSet_SSE", -1, 16, 3,
           InsRow((TYP_FLOAT :> "INS_shufps")),
           "HW_Category_IMM", FlagWord(auth[NI_SSE_Shuffle4])),
       Row(NI_SSE2_Add, "Add", "InstructionSet_SSE2", -1, 16, 2,
           InsRow((TYP_BYTE :> "INS_paddb") @@ ((TYP_BYTE + 1) :> "INS_paddb")
                  @@ ((TYP_BYTE + 2) :> "INS_paddw") @@ ((TYP_BYTE + 3) :> "INS_paddw")
                  @@ ((TYP_BYTE + 4) :> "INS_paddd") @@ ((TYP_BYTE + 5) :> "INS_paddd")
                  @@ ((TYP_BYTE + 6) :> "INS_paddq") @@ ((TYP_BYTE + 7) :> "INS_paddq")
                  @@ (TYP_DOUBLE :> "INS_addpd")),
           "HW_Category_SimpleSIMD", FlagWord(auth[NI_SSE2_Add])),
       Row(NI_SSE2_ShiftLeftLogical, "ShiftLeftLogical", "InstructionSet_SSE2", -1, 16, 2,
           InsRow(((TYP_BYTE + 4) :> "INS_pslld") @@ ((TYP_BYTE + 5) :> "INS_pslld")),
           "HW_Category_IMM", FlagWord(auth[NI_SSE2_ShiftLeftLogical])),
       Row(NI_AVX_TestA, "TestA", "InstructionSet_AVX", -1, 32, 2,
           InsRow((TYP_FLOAT :> "INS_vtest") @@ (TYP_DOUBLE :> "INS_vtest")),
           "HW_Category_IMM", FlagWord(auth[NI_AVX_TestA])),
       Row(NI_AVX_TestB, "TestB", "InstructionSet_AVX", -1, 32, 2,
           InsRow((TYP_FLOAT :> "INS_vtest") @@ (TYP_DOUBLE :> "INS_vtest")),
           "HW_Category_IMM", FlagWord(auth[NI_AVX_TestB])) >>

-----------------------------------------------------------------------------
(* struct HWIntrinsicInfo: member lookups *)

\* static const HWIntrinsicInfo& lookup(NamedIntrinsic id)
lookup(id) == table[id - NI_HW_INTRINSIC_START]

\* A lookup that returns a neighbouring field instead of id.
lookupId_WrongField(id) == lookup(id).numArgs

lookupId(id) == lookup(id).id

\* A lookup that reads the name of the row before (wrapping to the last).
lookupName_StaleRow(id) ==
    table[IF id - NI_HW_INTRINSIC_START = 1
          THEN Len(table)
          ELSE id - NI_HW_INTRINSIC_START - 1].name

lookupName(id) == lookup(id).name

lookupIsa(id) == lookup(id).isa

lookupIval(id) == lookup(id).ival

lookupSimdSize(id) == lookup(id).simdSize

lookupNumArgs(id) == lookup(id).numArgs

\* The outcome of a failed assert.
AssertFailure == "AssertFailure"

\* The outcomes of lookupIns(id, type). The assert is a macro: a build that
\* checks it stops on a type outside TYP_BYTE..TYP_DOUBLE, a build that
\* compiles it out goes on to read ins[type - TYP_BYTE].
lookupIns(id, type) ==
    (IF (type >= TYP_BYTE) /\ (type <= TYP_DOUBLE) THEN {} ELSE { AssertFailure })
        \cup ArrayRead(lookup(id).ins, type - TYP_BYTE)

lookupCategory(id) == lookup(id).category

lookupFlags(id) == lookup(id).flags

-----------------------------------------------------------------------------
(* struct HWIntrinsicInfo: flags lookup *)

IsCommutative(id) ==
    LET flags == lookupFlags(id) IN BitAnd(flags, HW_Flag_Commutative) # 0

\* A predicate with the comparison the wrong way round.
HasFullRangeImm_Inverted(id) ==
    LET flags == lookupFlags(id) IN BitAnd(flags, HW_Flag_FullRangeIMM) = 0

\* A predicate that tests its neighbour's bit.
HasFullRangeImm_WrongMask(id) ==
    LET flags == lookupFlags(id) IN BitAnd(flags, HW_Flag_Commutative) # 0

HasFullRangeImm(id) ==
    LET flags == lookupFlags(id) IN BitAnd(flags, HW_Flag_FullRangeIMM) # 0

IsOneTypeGeneric(id) ==
    LET flags == lookupFlags(id) IN BitAnd(flags, HW_Flag_OneTypeGeneric) # 0

\* A predicate pasted from its neighbour with the mask left unchanged.
IsTwoTypeGeneric_CopyPaste(id) ==
    LET flags == lookupFlags(id) IN BitAnd(flags, HW_Flag_OneTypeGeneric) # 0

IsTwoTypeGeneric(id) ==
    LET flags == lookupFlags(id) IN BitAnd(flags, HW_Flag_TwoTypeGeneric) # 0

\* A negatively named flag reported without the inversion.
RequiresCodegen_NotInverted(id) ==
    LET flags == lookupFlags(id) IN BitAnd(flags, HW_Flag_NoCodeGen) # 0

RequiresCodegen(id) ==
    LET flags == lookupFlags(id) IN BitAnd(flags, HW_Flag_NoCodeGen) = 0

\* A negatively named flag reported without the inversion.
HasFixedSimdSize_NotInverted(id) ==
    LET flags == lookupFlags(id) IN BitAnd(flags, HW_Flag_UnfixedSIMDSize) # 0

HasFixedSimdSize(id) ==
    LET flags == lookupFlags(id) IN BitAnd(flags, HW_Flag_UnfixedSIMDSize) = 0

GeneratesMultipleIns(id) ==
    LET flags == lookupFlags(id) IN BitAnd(flags, HW_Flag_MultiIns) # 0

SupportsContainment(id) ==
    LET flags == lookupFlags(id) IN BitAnd(flags, HW_Flag_NoContainment) = 0

CopiesUpperBits(id) ==
    LET flags == lookupFlags(id) IN BitAnd(flags, HW_Flag_CopyUpperBits) # 0

BaseTypeFromFirstArg(id) ==
    LET flags == lookupFlags(id) IN BitAnd(flags, HW_Flag_BaseTypeFromFirstArg) # 0

IsFloatingPointUsed(id) ==
    LET flags == lookupFlags(id) IN BitAnd(flags, HW_Flag_NoFloatingPointUsed) = 0

MaybeImm(id) ==
    LET flags == lookupFlags(id) IN BitAnd(flags, HW_Flag_MaybeIMM) # 0

MaybeMemoryLoad(id) ==
    LET flags == lookupFlags(id) IN BitAnd(flags, HW_Flag_MaybeMemoryLoad) # 0

MaybeMemoryStore(id) ==
    LET flags == lookupFlags(id) IN BitAnd(flags, HW_Flag_MaybeMemoryStore) # 0

\* A predicate with the comparison the wrong way round.
NoJmpTableImm_Inverted(id) ==
    LET flags == lookupFlags(id) IN BitAnd(flags, HW_Flag_NoJmpTableIMM) = 0

NoJmpTableImm(id) ==
    LET flags == lookupFlags(id) IN BitAnd(flags, HW_Flag_NoJmpTableIMM) # 0

Is64BitOnly(id) ==
    LET flags == lookupFlags(id) IN BitAnd(flags, HW_Flag_64BitOnly) # 0

SecondArgMaybe64Bit(id) ==
    LET flags == lookupFlags(id) IN BitAnd(flags, HW_Flag_SecondArgMaybe64Bit) # 0

BaseTypeFromSecondArg(id) ==
    LET flags == lookupFlags(id) IN BitAnd(flags, HW_Flag_BaseTypeFromSecondArg) # 0

HasSpecialCodegen(id) ==
    LET flags == lookupFlags(id) IN BitAnd(flags, HW_Flag_SpecialCodeGen) # 0

HasRMWSemantics(id) ==
    LET flags == lookupFlags(id) IN BitAnd(flags, HW_Flag_NoRMWSemantics) = 0

HasSpecialImport(id) ==
    LET flags == lookupFlags(id) IN BitAnd(flags, HW_Flag_SpecialImport) # 0

PredicateNames ==
    { "IsCommutative", "HasFullRangeImm", "IsOneTypeGeneric", "IsTwoTypeGeneric",
      "RequiresCodegen", "HasFixedSimdSize", "GeneratesMultipleIns",
      "SupportsContainment", "CopiesUpperBits", "BaseTypeFromFirstArg",
      "IsFloatingPointUsed", "MaybeImm", "MaybeMemoryLoad", "MaybeMemoryStore",
      "NoJmpTableImm", "Is64BitOnly", "SecondArgMaybe64Bit",
      "BaseTypeFromSecondArg", "HasSpecialCodegen", "HasRMWSemantics",
      "HasSpecialImport" }

\* A call of the flag predicate named p.
FlagPredicate(p, id) ==
    CASE p = "IsCommutative" -> IsCommutative(id)
      [] p = "HasFullRangeImm" -> HasFullRangeImm(id)
      [] p = "IsOneTypeGeneric" -> IsOneTypeGeneric(id)
      [] p = "IsTwoTypeGeneric" -> IsTwoTypeGeneric(id)
      [] p = "RequiresCodegen" -> RequiresCodegen(id)
      [] p = "HasFixedSimdSize" -> HasFixedSimdSize(id)
      [] p = "GeneratesMultipleIns" -> GeneratesMultipleIns(id)
      [] p = "SupportsContainment" -> SupportsContainment(id)
      [] p = "CopiesUpperBits" -> CopiesUpperBits(id)
      [] p = "BaseTypeFromFirstArg" -> BaseTypeFromFirstArg(id)
      [] p = "IsFloatingPointUsed" -> IsFloatingPointUsed(id)
      [] p = "MaybeImm" -> MaybeImm(id)
      [] p = "MaybeMemoryLoad" -> MaybeMemoryLoad(id)
      [] p = "MaybeMemoryStore" -> MaybeMemoryStore(id)
      [] p = "NoJmpTableImm" -> NoJmpTableImm(id)
      [] p = "Is64BitOnly" -> Is64BitOnly(id)
      [] p = "SecondArgMaybe64Bit" -> SecondArgMaybe64Bit(id)
      [] p = "BaseTypeFromSecondArg" -> BaseTypeFromSecondArg(id)
      [] p = "HasSpecialCodegen" -> HasSpecialCodegen(id)
      [] p = "HasRMWSemantics" -> HasRMWSemantics(id)
      [] p = "HasSpecialImport" -> HasSpecialImport(id)

-----------------------------------------------------------------------------
(* Name resolver *)

\* static InstructionSet lookupIsa(const char* className)
lookupIsaByName(className) ==
    CASE className = "Sse" -> "InstructionSet_SSE"
      [] className = "Sse2" -> "InstructionSet_SSE2"
      [] className = "Avx" -> "InstructionSet_AVX"
      [] OTHER -> InstructionSet_ILLEGAL

\* static NamedIntrinsic lookupId(const char* className, const char* methodName)
lookupIdByName(className, methodName) ==
    LET isa == lookupIsaByName(className)
        hits == { i \in 1 .. Len(table) :
                    table[i].isa = isa /\ table[i].name = methodName }
    IN  IF isa = InstructionSet_ILLEGAL \/ hits = {}
        THEN NI_Illegal
        ELSE table[CHOOSE i \in hits : \A j \in hits : i <= j].id

-----------------------------------------------------------------------------
(* Immediate constraint evaluator *)

\* The full range of imm8 (0-255).
FullRangeImmMax == 255

\* The intrinsic-specific bound of a row that is not full range.
ImmBoundOf(id) ==
    CASE id = NI_SSE_Shuffle4 -> 3
      [] id = NI_AVX_TestA -> 7
      [] id = NI_AVX_TestB -> 1
      [] OTHER -> FullRangeImmMax

\* static int lookupImmUpperBound(NamedIntrinsic id)
lookupImmUpperBound(id) ==
    IF HasFullRangeImm(id) THEN FullRangeImmMax ELSE ImmBoundOf(id)

\* static bool isInImmRange(NamedIntrinsic id, int ival)
isInImmRange(id, ival) ==
    (ival <= lookupImmUpperBound(id)) /\ (ival >= 0)

\* What shaping does with a required immediate that is not a constant.  The
\* header documents HW_Flag_NoJmpTableIMM as "the imm intrinsic does not need
\* jumptable fallback when it gets non-const argument": a flagged intrinsic
\* takes the non-constant argument as it is, the others fall back to the
\* jump table.
NonConstImmOutcome(id) ==
    IF NoJmpTableImm(id) THEN "NoJumpTableNeeded" ELSE "JumpTableExpansion"

-----------------------------------------------------------------------------
(* Signature-aware sizing *)

SimdSize_Wide == 32
SimdSize_Narrow == 16
FatalError == "FatalError"

\* What the signature's operand/return type denotes.
SigTypes == { "Vector256", "Vector128", "Scalar" }

\* static unsigned lookupSimdSize(Compiler* comp, NamedIntrinsic id, CORINFO_SIG_INFO* sig)
lookupSimdSizeSig(id, sig) ==
    IF HasFixedSimdSize(id)
    THEN lookupSimdSize(id)
    ELSE CASE sig = "Vector256" -> SimdSize_Wide
           [] sig = "Vector128" -> SimdSize_Narrow
           [] OTHER -> FatalError

-----------------------------------------------------------------------------
(* Inputs *)

ClassInputs == { "Sse", "Sse2", "Avx", "sse", "Ss", "Popcnt" }
MethodInputs ==
    { "Add", "Shuffle", "ShiftLeftLogical", "TestA", "TestB", "add", "Ad", "Multiply" }
ImmValues == (0 - ImmSlack) .. (FullRangeImmMax + ImmSlack)

\* Flags the single-threaded and concurrent paths vary on the synthetic rows.
ProbeFlags == { "FullRangeIMM", "NoJmpTableIMM", "UnfixedSIMDSize" }

\* The subsets of X with at most k elements.
RECURSIVE SubsetsUpTo(_, _)
SubsetsUpTo(X, k) ==
    IF k = 0
    THEN {{}}
    ELSE LET smaller == SubsetsUpTo(X, k - 1)
         IN  smaller \cup { S \cup {x} : S \in smaller, x \in X }

NoCall == << "none", <<>>, "none" >>
Workers == 1 .. NumWorkers

\* The queries every worker issues, in order.
Workload ==
    << << "lookup", << NI_SSE_Shuffle4 >> >>,
       << "lookupId", << NI_SSE_Add >> >>,
       << "flag", << "HasFullRangeImm", NI_AVX_TestA >> >>,
       << "lookupIns", << NI_SSE2_Add, TYP_DOUBLE >> >>,
       << "isInImmRange", << NI_AVX_TestA, 5 >> >> >>

\* The intrinsic a query is about.
QueryId(q) == IF q[1] = "flag" THEN q[2][2] ELSE q[2][1]

\* The values a query can return: one, except for lookupIns on a type
\* outside TYP_BYTE..TYP_DOUBLE.
Eval(q) ==
    CASE q[1] = "lookup" -> { lookup(q[2][1]) }
      [] q[1] = "lookupId" -> { lookupId(q[2][1]) }
      [] q[1] = "flag" -> { FlagPredicate(q[2][1], q[2][2]) }
      [] q[1] = "lookupIns" -> lookupIns(q[2][1], q[2][2])
      [] q[1] = "isInImmRange" -> { isInImmRange(q[2][1], q[2][2]) }

-----------------------------------------------------------------------------
(* Initial states: the registry as built before any compilation begins *)

IdleWorkers ==
    /\ pc = [w \in Workers |-> 1]
    /\ inflight = [w \in Workers |-> FALSE]
    /\ results = [w \in Workers |-> <<>>]

\* The synthetic rows carry complementary subsets of the probe flags.
Init ==
    /\ \E S \in SUBSET ProbeFlags :
          authored = [BaseFlags EXCEPT ![NI_AVX_TestA] = S,
                                       ![NI_AVX_TestB] = ProbeFlags \ S]
    /\ table = hwIntrinsicInfoArray(authored)
    /\ last = NoCall
    /\ IdleWorkers
    /\ expected = <<>>

\* The synthetic rows differ in exactly one flag f; up to MaxOtherFlags others are set on both.
InitFlags ==
    /\ \E f \in FlagNames :
          \E S \in SubsetsUpTo(FlagNames \ {f}, MaxOtherFlags) :
              authored = [BaseFlags EXCEPT ![NI_AVX_TestA] = S,
                                           ![NI_AVX_TestB] = S \cup {f}]
    /\ table = hwIntrinsicInfoArray(authored)
    /\ last = NoCall
    /\ IdleWorkers
    /\ expected = <<>>

\* As Init, with the workload's sequential results recorded.
InitConc ==
    /\ \E S \in SUBSET ProbeFlags :
          authored = [BaseFlags EXCEPT ![NI_AVX_TestA] = S,
                                       ![NI_AVX_TestB] = ProbeFlags \ S]
    /\ table = hwIntrinsicInfoArray(authored)
    /\ last = NoCall
    /\ IdleWorkers
    /\ expected = [k \in 1 .. Len(Workload) |-> Eval(Workload[k])]

-----------------------------------------------------------------------------
(* Calls on the single-threaded path *)

Call(kind, args, r) ==
    /\ last = NoCall
    /\ last' = << kind, args, r >>
    /\ UNCHANGED << authored, table, pc, inflight, results, expected >>

CallLookupId(id) == Call("lookupId", << id >>, lookupId(id))

CallLookupIdByName(c, m) == Call("lookupIdByName", << c, m >>, lookupIdByName(c, m))

CallLookupIsaByName(c) == Call("lookupIsaByName", << c >>, lookupIsaByName(c))

CallIsInImmRange(id, v) ==
    /\ lookupCategory(id) = "HW_Category_IMM"
    /\ Call("isInImmRange", << id, v >>, isInImmRange(id, v))

CallNonConstImm(id) ==
    /\ lookupCategory(id) = "HW_Category_IMM"
    /\ Call("nonConstImm", << id >>, NonConstImmOutcome(id))

CallLookupSimdSize(id, sig) ==
    Call("lookupSimdSize", << id, sig >>, lookupSimdSizeSig(id, sig))

CallLookupIns(id, type) ==
    \E r \in lookupIns(id, type) : Call("lookupIns", << id, type >>, r)

CallFlagPredicate(p, id) == Call("flag", << p, id >>, FlagPredicate(p, id))

\* The caller takes the result.
Return ==
    /\ last # NoCall
    /\ last' = NoCall
    /\ UNCHANGED << authored, table, pc, inflight, results, expected >>

-----------------------------------------------------------------------------
(* Queries of concurrent workers *)

\* Worker w fetches the row of its next query.
Begin(w) ==
    /\ pc[w] <= Len(Workload)
    /\ ~inflight[w]
    /\ inflight' = [inflight EXCEPT ![w] = TRUE]
    /\ UNCHANGED << authored, table, last, pc, results, expected >>

\* A query that stores into the row it reads.
Complete_Writing(w) ==
    /\ inflight[w]
    /\ \E r \in Eval(Workload[pc[w]]) :
          results' = [results EXCEPT ![w] = Append(@, r)]
    /\ table' = [table EXCEPT
                    ![QueryId(Workload[pc[w]]) - NI_HW_INTRINSIC_START].flags =
                        HW_Flag_NoFlag]
    /\ pc' = [pc EXCEPT ![w] = @ + 1]
    /\ inflight' = [inflight EXCEPT ![w] = FALSE]
    /\ UNCHANGED << authored, last, expected >>

\* Worker w reads the field and returns.
Complete(w) ==
    /\ inflight[w]
    /\ \E r \in Eval(Workload[pc[w]]) :
          results' = [results EXCEPT ![w] = Append(@, r)]
    /\ pc' = [pc EXCEPT ![w] = @ + 1]
    /\ inflight' = [inflight EXCEPT ![w] = FALSE]
    /\ UNCHANGED << authored, table, last, expected >>

-----------------------------------------------------------------------------
(* Specifications *)

Next ==
    \/ \E id \in HWIds : CallLookupId(id)
    \/ \E c \in ClassInputs, m \in MethodInputs : CallLookupIdByName(c, m)
    \/ \E c \in ClassInputs : CallLookupIsaByName(c)
    \/ \E id \in HWIds, v \in ImmValues : CallIsInImmRange(id, v)
    \/ \E id \in HWIds : CallNonConstImm(id)
    \/ \E id \in HWIds, sig \in SigTypes : CallLookupSimdSize(id, sig)
    \/ \E id \in HWIds, t \in VarTypes : CallLookupIns(id, t)
    \/ Return

Spec == Init /\ [][Next]_vars

NextFlags ==
    \/ \E p \in PredicateNames, id \in HWIds : CallFlagPredicate(p, id)
    \/ Return

SpecFlags == InitFlags /\ [][NextFlags]_vars

NextConc ==
    \/ \E w \in Workers : Begin(w)
    \/ \E w \in Workers : Complete(w)

SpecConc == InitConc /\ [][NextConc]_vars

-----------------------------------------------------------------------------
(* Vocabulary of the properties *)

\* The flag each predicate reads.
FlagOf(p) ==
    CASE p = "IsCommutative" -> "Commutative"
      [] p = "HasFullRangeImm" -> "FullRangeIMM"
      [] p = "IsOneTypeGeneric" -> "OneTypeGeneric"
      [] p = "IsTwoTypeGeneric" -> "TwoTypeGeneric"
      [] p = "RequiresCodegen" -> "NoCodeGen"
      [] p = "HasFixedSimdSize" -> "UnfixedSIMDSize"
      [] p = "GeneratesMultipleIns" -> "MultiIns"
      [] p = "SupportsContainment" -> "NoContainment"
      [] p = "CopiesUpperBits" -> "CopyUpperBits"
      [] p = "BaseTypeFromFirstArg" -> "BaseTypeFromFirstArg"
      [] p = "IsFloatingPointUsed" -> "NoFloatingPointUsed"
      [] p = "MaybeImm" -> "MaybeIMM"
      [] p = "MaybeMemoryLoad" -> "MaybeMemoryLoad"
      [] p = "MaybeMemoryStore" -> "MaybeMemoryStore"
      [] p = "NoJmpTableImm" -> "NoJmpTableIMM"
      [] p = "Is64BitOnly" -> "64BitOnly"
      [] p = "SecondArgMaybe64Bit" -> "SecondArgMaybe64Bit"
      [] p = "BaseTypeFromSecondArg" -> "BaseTypeFromSecondArg"
      [] p = "HasSpecialCodegen" -> "SpecialCodeGen"
      [] p = "HasRMWSemantics" -> "NoRMWSemantics"
      [] p = "HasSpecialImport" -> "SpecialImport"

\* The predicates that report a negatively named flag.
InvertedPredicates ==
    { "RequiresCodegen", "HasFixedSimdSize", "SupportsContainment",
      "IsFloatingPointUsed", "HasRMWSemantics" }

\* The extension class whose intrinsics belong to an instruction set.
ClassNameOf(isa) ==
    CASE isa = "InstructionSet_SSE" -> "Sse"
      [] isa = "InstructionSet_SSE2" -> "Sse2"
      [] isa = "InstructionSet_AVX" -> "Avx"

KnownClassNames == { ClassNameOf(isa) : isa \in InstructionSets }

\* n has exactly one bit set.
RECURSIVE IsSingleBit(_)
IsSingleBit(n) ==
    IF n <= 1 THEN n = 1 ELSE (n % 2 = 0) /\ IsSingleBit(n \div 2)

CallKind == last[1]
CallArgs == last[2]
CallResult == last[3]

-----------------------------------------------------------------------------
(* Properties *)

\* C1: an intrinsic without FullRangeIMM and with upper bound
\* B = lookupImmUpperBound(id) has its immediate accepted exactly when
\* 0 <= v <= B, so B + 1 and -1 are rejected; the 4-lane shuffle (B = 3)
\* accepts 0, 1, 2, 3 and rejects 4.
C1_ImmBoundary ==
    (CallKind = "isInImmRange" /\ "FullRangeIMM" \notin authored[CallArgs[1]]) =>
        LET id == CallArgs[1]
            v == CallArgs[2]
            B == lookupImmUpperBound(id)
        IN  /\ CallResult = ((0 <= v) /\ (v <= B))
            /\ (v \in {-1, B + 1}) => (CallResult = FALSE)
            /\ (id = NI_SSE_Shuffle4) =>
                  /\ B = 3
                  /\ CallResult = (v \in {0, 1, 2, 3})

\* The shuffle's immediate 4, one past its bound, has been rejected.
C1_Witness ==
    /\ CallKind = "isInImmRange"
    /\ CallArgs = << NI_SSE_Shuffle4, 4 >>
    /\ "FullRangeIMM" \notin authored[NI_SSE_Shuffle4]
    /\ CallResult = FALSE

\* C2: an intrinsic with FullRangeIMM has upper bound 255: every immediate in
\* 0..255 is accepted and every other one rejected, whatever the row's vector
\* width or intrinsic-specific bound.
C2_FullRange ==
    (CallKind = "isInImmRange" /\ "FullRangeIMM" \in authored[CallArgs[1]]) =>
        LET id == CallArgs[1]
            v == CallArgs[2]
        IN  /\ lookupImmUpperBound(id) = 255
            /\ CallResult = (v \in 0 .. 255)

\* The synthetic row, whose own bound is 7, is full range and has accepted 255.
C2_Witness ==
    /\ CallKind = "isInImmRange"
    /\ CallArgs = << NI_AVX_TestA, 255 >>
    /\ "FullRangeIMM" \in authored[NI_AVX_TestA]
    /\ ImmBoundOf(NI_AVX_TestA) < 255
    /\ CallResult = TRUE

C4_NameRoundTrip ==
    /\ \A id \in HWIds :
          lookupIdByName(ClassNameOf(lookupIsa(id)), lookupName(id)) = id
    /\ (CallKind = "lookupIdByName") =>
          LET matches == { id \in HWIds :
                             /\ ClassNameOf(table[id - NI_HW_INTRINSIC_START].isa) = CallArgs[1]
                             /\ table[id - NI_HW_INTRINSIC_START].name = CallArgs[2] }
          IN  IF matches = {}
              THEN CallResult = NI_Illegal
              ELSE matches = { CallResult }
    /\ (CallKind = "lookupIsaByName") =>
          IF CallArgs[1] \in KnownClassNames
          THEN ClassNameOf(CallResult) = CallArgs[1]
          ELSE CallResult = InstructionSet_ILLEGAL

\* ("Sse2", "Add") has resolved to the Sse2 row, not to the Sse row of the same name.
C4_Witness ==
    /\ CallKind = "lookupIdByName"
    /\ CallArgs = << "Sse2", "Add" >>
    /\ CallResult = NI_SSE2_Add

\* C5: lookupId(i) = i for every registered id i; every id has exactly one
\* descriptor and no two ids share one.
C5_Identity ==
    /\ (CallKind = "lookupId") => (CallResult = CallArgs[1])
    /\ \A i \in HWIds : lookupId(i) = i
    /\ \A i \in HWIds : (i - NI_HW_INTRINSIC_START) \in DOMAIN table
    /\ \A i, j \in HWIds : (i # j) => (lookup(i) # lookup(j))
    /\ Len(table) = Cardinality(HWIds)

\* lookupId has been called on the last id of the table.
C5_Witness ==
    /\ CallKind = "lookupId"
    /\ CallArgs = << NI_AVX_TestB >>
    /\ CallResult = NI_AVX_TestB

\* C8: with UnfixedSIMDSize clear the sized lookup returns the row's simdSize
\* whatever the signature; with it set, the wide width for a 256-bit vector
\* type, the narrow width for a 128-bit one, and a fatal error for a signature
\* that names neither.
C8_SimdSize ==
    (CallKind = "lookupSimdSize") =>
        LET id == CallArgs[1]
            sig == CallArgs[2]
        IN  IF "UnfixedSIMDSize" \notin authored[id]
            THEN /\ HasFixedSimdSize(id)
                 /\ CallResult = table[id - NI_HW_INTRINSIC_START].simdSize
            ELSE /\ ~HasFixedSimdSize(id)
                 /\ (sig = "Vector256") => (CallResult = SimdSize_Wide)
                 /\ (sig = "Vector128") => (CallResult = SimdSize_Narrow)
                 /\ (sig = "Scalar") => (CallResult = FatalError)

\* A row of nominal width 32 with UnfixedSIMDSize has been sized 16 from its signature.
C8_Witness ==
    /\ CallKind = "lookupSimdSize"
    /\ CallArgs = << NI_AVX_TestA, "Vector128" >>
    /\ "UnfixedSIMDSize" \in authored[NI_AVX_TestA]
    /\ CallResult = SimdSize_Narrow
    /\ lookupSimdSize(NI_AVX_TestA) = SimdSize_Wide

\* C9: for TYP_BYTE <= t <= TYP_DOUBLE, lookupIns(id, t) reads slot
\* t - TYP_BYTE, which lies in 0..9, and returns that slot's opcode or
\* INS_invalid; any other t fails the assertion and indexes nothing. The
\* second half fails where the assert is compiled out: the type is then
\* used as an index outside the row.
C9_InsIndex ==
    /\ \A t \in VarTypes :
          ((t >= TYP_BYTE) /\ (t <= TYP_DOUBLE)) <=> ((t - TYP_BYTE) \in 0 .. 9)
    /\ InsSlots = 10
    /\ \A id \in HWIds : Len(table[id - NI_HW_INTRINSIC_START].ins) = InsSlots
    /\ (CallKind = "lookupIns") =>
          LET id == CallArgs[1]
              t == CallArgs[2]
          IN  IF (t >= TYP_BYTE) /\ (t <= TYP_DOUBLE)
              THEN /\ CallResult \in Instructions
                   /\ CallResult = table[id - NI_HW_INTRINSIC_START].ins[t - TYP_BYTE + 1]
              ELSE CallResult = AssertFailure

\* The flags in which the two synthetic rows differ.
Toggled ==
    (authored[NI_AVX_TestA] \ authored[NI_AVX_TestB])
        \cup (authored[NI_AVX_TestB] \ authored[NI_AVX_TestA])

\* The synthetic row a call was not made on.
OtherSynthetic(id) == IF id = NI_AVX_TestA THEN NI_AVX_TestB ELSE NI_AVX_TestA

\* C6: the 21 flags are distinct single bits, none of them HW_Flag_NoFlag, and
\* setting or clearing one flag of a descriptor changes the result of the
\* predicate that reads it and of no other predicate.
C6_FlagIndependence ==
    /\ Cardinality(FlagNames) = 21
    /\ (CallKind = "flag") =>
          LET f == FlagOf(CallArgs[1])
          IN  /\ IsSingleBit(FlagValue(f))
              /\ FlagValue(f) # HW_Flag_NoFlag
              /\ \A g \in FlagNames \ {f} : BitAnd(FlagValue(f), FlagValue(g)) = 0
    /\ (CallKind = "flag" /\ CallArgs[2] \in {NI_AVX_TestA, NI_AVX_TestB}) =>
          LET p == CallArgs[1]
              id == CallArgs[2]
          IN  (CallResult # FlagPredicate(p, OtherSynthetic(id)))
                  <=> (FlagOf(p) \in Toggled)

\* IsTwoTypeGeneric has been read on the row where OneTypeGeneric was added to
\* TwoTypeGeneric.
C6_Witness ==
    /\ CallKind = "flag"
    /\ CallArgs = << "IsTwoTypeGeneric", NI_AVX_TestB >>
    /\ authored[NI_AVX_TestA] = {"TwoTypeGeneric"}
    /\ Toggled = {"OneTypeGeneric"}
    /\ CallResult = TRUE

\* C7: whatever the interleaving of the workers' queries, every query returns
\* what it returns when the workload runs sequentially, and the registry stays
\* as it was built.
C7_ConcurrentEqualsSequential ==
    /\ table = hwIntrinsicInfoArray(authored)
    /\ \A w \in Workers :
          /\ Len(results[w]) = pc[w] - 1
          /\ \A k \in 1 .. Len(results[w]) : expected[k] = { results[w][k] }

\* One worker has finished the workload while another is in the middle of a query.
C7_Witness ==
    \E w1, w2 \in Workers :
        /\ w1 # w2
        /\ pc[w1] = Len(Workload) + 1
        /\ \A k \in 1 .. Len(Workload) : expected[k] = { results[w1][k] }
        /\ inflight[w2]
        /\ pc[w2] = 3

\* C10: every predicate reports its own flag: the five that read a negatively
\* named flag (NoCodeGen, UnfixedSIMDSize, NoContainment, NoFloatingPointUsed,
\* NoRMWSemantics) are true exactly when it is clear, the other 16 exactly when
\* theirs is set; on a HW_Flag_NoFlag row the five are true.
C10_Polarity ==
    /\ Cardinality(InvertedPredicates) = 5
    /\ Cardinality(PredicateNames \ InvertedPredicates) = 16
    /\ (CallKind = "flag") =>
          LET p == CallArgs[1]
              id == CallArgs[2]
              set == FlagOf(p) \in authored[id]
          IN  /\ CallResult = (IF p \in InvertedPredicates THEN ~set ELSE set)
              /\ (lookupFlags(id) = HW_Flag_NoFlag) =>
                    (CallResult = (p \in InvertedPredicates))

\* RequiresCodegen has returned true on a row whose flags are HW_Flag_NoFlag.
C10_Witness ==
    /\ CallKind = "flag"
    /\ CallArgs = << "RequiresCodegen", NI_SSE_Shuffle4 >>
    /\ lookupFlags(NI_SSE_Shuffle4) = HW_Flag_NoFlag
    /\ CallResult = TRUE

====
